---- MODULE Spec2Model ----
(***************************************************************************)
(* A model of the render pipeline (src/src/core/RenderPipeline.ts) and of  *)
(* the scanline effect (src/src/effects/ScanlineEffect.ts).                *)
(*                                                                         *)
(* Every public operation of RenderPipeline is one action.  Each action    *)
(* records the call it models in `call` and the calls the handler makes   *)
(* on its collaborators (Buffer Registry, Timer, Log, the passes), in the  *)
(* order the code makes them, in `trace`.  Both describe the most recent   *)
(* call only.                                                              *)
(*                                                                         *)
(* Resolution, Timer, Pass, Effect and IOManager are not part of the       *)
(* sources at hand; what the model needs of them is taken from the         *)
(* specification (sections 3, 4 and 6): a Resolution has a base size and   *)
(* a scale, its effective size is round(base * scale), and a change of     *)
(* either notifies its listener; a pass starts with null handles.          *)
(*                                                                         *)
(* The state is explored in six specifications, each over the operations  *)
(* that touch the part of the state it is about:                           *)
(*   Spec        one pipeline: its pass list, the handles, the frames;     *)
(*   SpecShared  two pipelines that may hold the same passes;              *)
(*   SpecSize    one pipeline: the sizes of Resolution, renderer, passes;  *)
(*   SpecScan    one scanline effect;                                      *)
(*   SpecMat     one effect material (src/src/materials/EffectMaterial.ts) *)
(*               and the calls of its public operations;                   *)
(*   SpecHost    one effect material and the EffectPass that rebuilds it   *)
(*               from the Effects it hosts (section 4.3).                  *)
(* In Spec and SpecShared the renderer starts with the pipelines' size, so *)
(* that no resolution change alters a size; setSize, scale and render      *)
(* leave the lists and the handles alone.                                  *)
(***************************************************************************)
EXTENDS Integers, Sequences, FiniteSets, TLC

\* ------------------------------------------------------------------ bounds
\* The passes of the single-pipeline specifications.
NumPasses == 3
\* The passes of the specification with two pipelines.
NumFew == 2
\* The largest width and height.
MaxSize == 2
\* The largest number of sections in one setShaderParts mapping.
MaxParts == 1

\* The null reference.
NULL == 0

PASSES == 1..NumPasses
FEW == 1..NumFew
\* The passes of the specification with varying sizes.
SIZED == {1, 2}
\* Two pipelines, so that a pass can be shared between pipelines.
PIPES == {1, 2}
\* The pipeline of the single-pipeline specifications.
SOLO == {1}
\* One renderer object; a pipeline's renderer is it or NULL.
RENDERERS == {1}
\* Widths and heights.
SIZES == 1..MaxSize
\* Device pixel ratios of a renderer.
RATIOS == {1, 2}
\* Resolution scale factors, in units of 1/ScaleDen: 0.5 and 1.0.
ScaleDen == 2
SCALES == {1, 2}
DefaultScale == 2
\* Scanline densities, in units of 1/DensityDen: 0.25, 1.25 and 2.0.
DensityDen == 4
DENSITIES == {1, 5, 8}
DefaultDensity == 5
\* Scanline scroll speeds.
SPEEDS == {-1, 0, 1}
DefaultScrollSpeed == 0

VARIABLES
    renderer,       \* RenderPipeline._renderer, per pipeline
    passes,         \* RenderPipeline._passes, per pipeline
    resBase,        \* RenderPipeline.resolution: base size <<w, h>>
    resScale,       \* RenderPipeline.resolution: scale, in 1/ScaleDen
    registered,     \* the pipelines the Buffer Registry (ioManager) holds
    rSize,          \* WebGLRenderer: logical size <<w, h>>, per renderer
    rRatio,         \* WebGLRenderer: device pixel ratio, per renderer
    passRenderer,   \* Pass.renderer, per pass
    passTimer,      \* Pass.timer, per pass: the pipeline whose timer it is
    passBase,       \* Pass.resolution: base size <<w, h>>, per pass
    enabled,        \* Pass.enabled, per pass
    density,        \* ScanlineEffect.d, in 1/DensityDen
    scrollSpeed,    \* ScanlineEffect: the scrollSpeed uniform
    scanCount,      \* ScanlineEffect: the count uniform
    defines,        \* ScanlineEffect.input.defines: the declared macros
    effHeight,      \* ScanlineEffect.resolution.height
    materialDefines,   \* EffectMaterial.defines: macro name -> value
    materialUniforms,  \* EffectMaterial.uniforms: uniform name -> Uniform
    fragmentShader,    \* EffectMaterial.fragmentShader, a token sequence
    vertexShader,      \* EffectMaterial.vertexShader, a token sequence
    effects,           \* EffectPass: the Effects it hosts, in order
    call,           \* the most recent call
    trace           \* the collaborator calls the most recent call made

pipeVars == <<renderer, passes, resBase, resScale, registered>>
rendererVars == <<rSize, rRatio>>
passVars == <<passRenderer, passTimer, passBase, enabled>>
scanVars == <<density, scrollSpeed, scanCount, defines, effHeight>>
matVars == <<materialDefines, materialUniforms, fragmentShader, vertexShader,
            effects>>
vars == <<pipeVars, rendererVars, passVars, scanVars, matVars, call, trace>>

\* ----------------------------------------------------------------- helpers

\* Math.round of the rational n/den: the nearest integer, halves rounded up.
Round(n, den) == (2 * n + den) \div (2 * den)

\* Array.prototype.indexOf: the first index of x in s (1-based), 0 if absent.
IndexOf(s, x) ==
    IF \E i \in 1..Len(s) : s[i] = x
    THEN CHOOSE i \in 1..Len(s) : s[i] = x /\ \A j \in 1..(i - 1) : s[j] # x
    ELSE 0

\* A splice that ignores the index and drops the last element.
SpliceLast(s, i) == SubSeq(s, 1, Len(s) - 1)

\* Array.prototype.splice(index, 1): s without its element at index i.
Splice(s, i) == [k \in 1..(Len(s) - 1) |-> IF k < i THEN s[k] ELSE s[k + 1]]

\* The set of elements of a sequence.
Range(s) == {s[i] : i \in 1..Len(s)}

\* Resolution.width / Resolution.height: round(base * scale).
Effective(base, scale) ==
    <<Round(base[1] * scale, ScaleDen), Round(base[2] * scale, ScaleDen)>>

\* The effective size of a pipeline's Resolution.
ResSize(pl) == Effective(resBase[pl], resScale[pl])

\* The effective size of a pass's Resolution (its scale is the default).
PassSize(p) == Effective(passBase[p], DefaultScale)

\* WebGLRenderer.getDrawingBufferSize: floor(logical size * pixel ratio).
DrawingBufferSize(size, ratio) == <<size[1] * ratio, size[2] * ratio>>

\* ---------------------------------------------------------- call records

\* The record of a call: the operation, its pipeline (0 if none), its
\* argument (0 if none), whether it threw, the outcome of the test the
\* handler makes on the state before it acts (addPass, removePass: the pass
\* is in the list; scrollSpeed: SCROLL is declared; setSize, scale: the value
\* differs), and whether the call before it was the same call.
Call(op, pl, p, threw, test) ==
    [op |-> op, pl |-> pl, pass |-> p, threw |-> threw, test |-> test,
     repeat |-> (call.op = op /\ call.pl = pl /\ call.pass = p)]

EvUpdate == <<"ioManager.update", 0>>
EvRemovePipeline(pl) == <<"ioManager.removePipeline", pl>>
EvTimerUpdate(pl) == <<"timer.update", pl>>
EvTimerDispose(pl) == <<"timer.dispose", pl>>
EvRender(p) == <<"pass.render", p>>
EvPassDispose(p) == <<"pass.dispose", p>>
EvRenderThrows(p) == <<"pass.render throws", p>>
EvLog == <<"Log.debug", 0>>
EvSetChanged == <<"setChanged", 0>>

\* ------------------------------------------------------ the scanline effect

\* The scrollSpeed setter: the macros after the assignment of value.
ScrollDefines(defs, value) ==
    IF value = 0
    THEN defs \ {"SCROLL"}
    ELSE IF "SCROLL" \notin defs THEN defs \cup {"SCROLL"} ELSE defs

\* A setter that marks the effect dirty on every nonzero assignment.
ScrollChangedAlways(defs, value) ==
    IF value = 0
    THEN (IF "SCROLL" \in defs THEN <<EvSetChanged>> ELSE <<>>)
    ELSE <<EvSetChanged>>

\* The scrollSpeed setter: its setChanged() calls.
ScrollChanged(defs, value) ==
    IF value = 0
    THEN (IF "SCROLL" \in defs THEN <<EvSetChanged>> ELSE <<>>)
    ELSE IF "SCROLL" \notin defs THEN <<EvSetChanged>> ELSE <<>>

\* updateCount: the count uniform for a height, under density d.
Count(height, d) == Round(height * d, DensityDen)

\* ------------------------------------------------------ the effect material

\* The macro names: the material's own and the scanline effect's.
MACROS == {"COLOR_SPACE_CONVERSION", "SCROLL"}
\* The macro values.
MACRO_VALUES == {"1", "2"}
\* The mappings setDefines is called with.
DEFINES == UNION {[S -> MACRO_VALUES] : S \in SUBSET MACROS}

\* The uniform names setUniforms is called with: one the constructor
\* declares and one it does not.
UNIFORM_NAMES == {"time", "count"}
\* The Uniform objects setUniforms is called with.
UNIFORM_OBJECTS == {"u1"}
\* The mappings setUniforms is called with.
UNIFORMS == UNION {[S -> UNIFORM_OBJECTS] : S \in SUBSET UNIFORM_NAMES}

\* The section keys of the fragment shader, in the order setShaderParts
\* replaces them.
FragmentSections ==
    <<"FRAGMENT_MAIN_IMAGE", "FRAGMENT_MAIN_GDATA", "FRAGMENT_MAIN_UV",
      "FRAGMENT_HEAD", "FRAGMENT_HEAD_GBUFFER">>
\* The section keys of the vertex shader, in the order setShaderParts
\* replaces them.
VertexSections == <<"VERTEX_MAIN_SUPPORT", "VERTEX_HEAD">>
SECTIONS == Range(FragmentSections) \cup Range(VertexSections)

\* A section that is mapped to null.
NullText == "null"
\* The values of a section mapping: null or a snippet of shader code.
TEXTS == {NullText, "code"}
\* The mappings setShaderParts is called with.
PARTS ==
    UNION {[S -> TEXTS] : S \in {T \in SUBSET SECTIONS : Cardinality(T) <= MaxParts}}

\* A shader source is a sequence of tokens.  The templates hold each
\* placeholder once, in the order of the section enumeration.
FragmentTemplate ==
    <<"frag{", "FRAGMENT_HEAD", "FRAGMENT_HEAD_GBUFFER", "main{",
      "FRAGMENT_MAIN_GDATA", "FRAGMENT_MAIN_UV", "FRAGMENT_MAIN_IMAGE", "}}">>
VertexTemplate ==
    <<"vert{", "VERTEX_HEAD", "main{", "VERTEX_MAIN_SUPPORT", "}}">>
\* The shader source of a material that got no shader parts yet.
DefaultSource == <<"default">>

\* shaderParts.get(key) ?? "": the text of a section, empty when the section
\* is absent or null.
SectionText(parts, key) ==
    IF key \in DOMAIN parts /\ parts[key] # NullText
    THEN <<parts[key]>>
    ELSE <<>>

\* String.prototype.replace(marker, text): the first occurrence of the
\* marker is replaced; a source without the marker stays what it is.
Replace(source, marker, text) ==
    IF IndexOf(source, marker) = 0
    THEN source
    ELSE SubSeq(source, 1, IndexOf(source, marker) - 1) \o text
         \o SubSeq(source, IndexOf(source, marker) + 1, Len(source))

\* The chain of replace calls of setShaderParts, over the keys in order.
RECURSIVE ReplaceSections(_, _, _)
ReplaceSections(source, keys, parts) ==
    IF keys = <<>>
    THEN source
    ELSE ReplaceSections(Replace(source, Head(keys), SectionText(parts, Head(keys))),
                         Tail(keys), parts)

\* A setShaderParts that replaces the markers left in the current source.
FragmentPatched(source, parts) ==
    ReplaceSections(IF source = DefaultSource THEN FragmentTemplate ELSE source,
                    FragmentSections, parts)

\* setShaderParts: the fragment shader of a material whose fragment shader
\* was `source`; it is built from the template.
FragmentSource(source, parts) ==
    ReplaceSections(FragmentTemplate, FragmentSections, parts)

\* setShaderParts: the vertex shader of a material whose vertex shader was
\* `source`; it is built from the template.
VertexSource(source, parts) ==
    ReplaceSections(VertexTemplate, VertexSections, parts)

\* A merge that keeps the value a key already has.
MergedFirst(map, entries) ==
    [k \in DOMAIN map \cup DOMAIN entries |->
        IF k \in DOMAIN map THEN map[k] ELSE entries[k]]

\* The loop of setDefines: every entry is assigned to its key.
MergedDefines(map, entries) ==
    [k \in DOMAIN map \cup DOMAIN entries |->
        IF k \in DOMAIN entries THEN entries[k] ELSE map[k]]

\* The loop of setUniforms: every entry is assigned to its name.
MergedUniforms(map, entries) ==
    [k \in DOMAIN map \cup DOMAIN entries |->
        IF k \in DOMAIN entries THEN entries[k] ELSE map[k]]

\* The colorSpaceConversion getter.
ColorSpaceConversion(map) == "COLOR_SPACE_CONVERSION" \in DOMAIN map

\* The colorSpaceConversion setter: the macros after the assignment of value.
ConversionDefines(map, value) ==
    IF ColorSpaceConversion(map) # value
    THEN IF value
         THEN [k \in DOMAIN map \cup {"COLOR_SPACE_CONVERSION"} |->
                  IF k = "COLOR_SPACE_CONVERSION" THEN "1" ELSE map[k]]
         ELSE [k \in DOMAIN map \ {"COLOR_SPACE_CONVERSION"} |-> map[k]]
    ELSE map

EvNeedsUpdate == <<"needsUpdate", 0>>

\* A setter that flags recompilation on every assignment.
ConversionFlagsAlways(map, value) == <<EvNeedsUpdate>>

\* The colorSpaceConversion setter: its needsUpdate = true assignments.
ConversionFlags(map, value) ==
    IF ColorSpaceConversion(map) # value THEN <<EvNeedsUpdate>> ELSE <<>>

\* ----------------------------------------------------------------- Init

\* new RenderPipeline(renderer), with or without a renderer; passes that
\* are in no pipeline; a renderer of any size and pixel ratio.  Every
\* Resolution starts with the same base size, the constructor's default.
PipelineInit ==
    /\ renderer \in [PIPES -> RENDERERS \cup {NULL}]
    /\ passes = [pl \in PIPES |-> <<>>]
    /\ \E d \in SIZES \X SIZES :
          /\ resBase = [pl \in PIPES |-> d]
          /\ passBase = [p \in PASSES |-> d]
          /\ effHeight = d[2]
    /\ resScale = [pl \in PIPES |-> DefaultScale]
    /\ registered = PIPES
    /\ rSize \in [RENDERERS -> SIZES \X SIZES]
    /\ rRatio \in [RENDERERS -> RATIOS]
    /\ passRenderer = [p \in PASSES |-> NULL]
    /\ passTimer = [p \in PASSES |-> NULL]
    /\ enabled = [p \in PASSES |-> TRUE]

\* new ScanlineEffect({ density, scrollSpeed }).
ScanlineInit ==
    \E d \in DENSITIES, speed \in SPEEDS :
        /\ scanCount = 0
        /\ density = d
        /\ scrollSpeed = speed
        /\ defines = ScrollDefines({}, speed)
        /\ trace = ScrollChanged({}, speed)

\* new EffectMaterial(): the uniforms gBuffer and time, no macro of its own,
\* no shader parts; and an EffectPass that hosts no Effect yet.
MaterialInit ==
    /\ materialDefines = <<>>
    /\ materialUniforms = [n \in {"gBuffer", "time"} |-> "u0"]
    /\ fragmentShader = DefaultSource
    /\ vertexShader = DefaultSource
    /\ effects = <<>>

Init ==
    /\ PipelineInit
    /\ ScanlineInit
    /\ MaterialInit
    /\ call = [op |-> "constructor", pl |-> 0, pass |-> 0, threw |-> FALSE,
               test |-> FALSE, repeat |-> FALSE]

\* The scanline effect is constructed with its default options.
DefaultOptions == density = DefaultDensity /\ scrollSpeed = DefaultScrollSpeed

\* The renderer has the pipelines' size and a pixel ratio of 1, so that the
\* sizes stay what they are.
SameSize ==
    /\ rRatio = [r \in RENDERERS |-> 1]
    /\ rSize = [r \in RENDERERS |-> <<1, 1>>]
    /\ resBase = [pl \in PIPES |-> <<1, 1>>]

\* The pipelines outside SOLO are constructed without a renderer.
Solo == \A pl \in PIPES \ SOLO : renderer[pl] = NULL

\* ------------------------------------------------- resolution propagation

\* A resolution change that leaves the renderer's size alone.
UnresizedRenderers(r, size) == rSize

\* onResolutionChange, the renderer's part: the renderer is resized to the
\* pipeline's effective size when its logical size differs from it.
ResizedRenderers(r, size) ==
    IF rSize[r] # size
    THEN [rSize EXCEPT ![r] = size]
    ELSE rSize

\* A resolution change that does not reach the passes.
StalePasses(pl, r, sizes) == passBase

\* onResolutionChange, the passes' part: every pass in the list gets the
\* renderer's drawing buffer size as its base size.
ResizedPasses(pl, r, sizes) ==
    [p \in PASSES |->
        IF p \in Range(passes[pl])
        THEN DrawingBufferSize(sizes[r], rRatio[r])
        ELSE passBase[p]]

\* onResolutionChange of pipeline pl, whose renderer is r (possibly NULL)
\* and whose Resolution has the effective size `size`.
OnResolutionChange(pl, r, size) ==
    IF r = NULL
    THEN UNCHANGED <<rSize, passBase>>
    ELSE /\ rSize' = ResizedRenderers(r, size)
         /\ passBase' = ResizedPasses(pl, r, ResizedRenderers(r, size))

\* What onResolutionChange logs.
ResolutionLog(r) == IF r = NULL THEN <<EvLog>> ELSE <<>>

\* ------------------------------------------------------- pipeline actions

\* A registration that leaves the pass's base size alone.
KeptBase(pl, p) == passBase[p]

\* registerPass: the pass's base size after registration.
RegisteredBase(pl, p) ==
    IF renderer[pl] # NULL
    THEN DrawingBufferSize(rSize[renderer[pl]], rRatio[renderer[pl]])
    ELSE passBase[p]

\* An addPass without its duplicate check.
NeverAdded(pl, p) == FALSE

\* The duplicate check of addPass.
AlreadyAdded(pl, p) == IndexOf(passes[pl], p) # 0

AddPass(pl, p) ==
    /\ call' = Call("addPass", pl, p, AlreadyAdded(pl, p), AlreadyAdded(pl, p))
    /\ IF AlreadyAdded(pl, p)
       THEN /\ trace' = <<>>
            /\ UNCHANGED <<pipeVars, rendererVars, passVars>>
       ELSE /\ passBase' = [passBase EXCEPT ![p] = RegisteredBase(pl, p)]
            /\ passRenderer' = [passRenderer EXCEPT ![p] = renderer[pl]]
            /\ passTimer' = [passTimer EXCEPT ![p] = pl]
            /\ passes' = [passes EXCEPT ![pl] = Append(@, p)]
            /\ trace' = <<EvUpdate>>
            /\ UNCHANGED <<renderer, resBase, resScale, registered,
                           rendererVars, enabled>>
    /\ UNCHANGED <<scanVars, matVars>>

\* A removePass that unregisters the pass whether or not it was in the list.
RemovePassUnchecked(pl, p) ==
    LET index == IndexOf(passes[pl], p)
        exists == index # 0
    IN  /\ call' = Call("removePass", pl, p, FALSE, exists)
        /\ passes' = [passes EXCEPT ![pl] = IF exists THEN Splice(@, index) ELSE @]
        /\ passRenderer' = [passRenderer EXCEPT ![p] = NULL]
        /\ passTimer' = [passTimer EXCEPT ![p] = NULL]
        /\ trace' = <<EvUpdate>>
        /\ UNCHANGED <<renderer, resBase, resScale, registered,
                       rendererVars, passBase, enabled, scanVars, matVars>>

RemovePass(pl, p) ==
    LET index == IndexOf(passes[pl], p)
        exists == index # 0
    IN  /\ call' = Call("removePass", pl, p, FALSE, exists)
        /\ IF exists
           THEN /\ passes' = [passes EXCEPT ![pl] = Splice(@, index)]
                /\ passRenderer' = [passRenderer EXCEPT ![p] = NULL]
                /\ passTimer' = [passTimer EXCEPT ![p] = NULL]
                /\ trace' = <<EvUpdate>>
                /\ UNCHANGED <<renderer, resBase, resScale, registered,
                               rendererVars, passBase, enabled>>
           ELSE /\ trace' = <<>>
                /\ UNCHANGED <<pipeVars, rendererVars, passVars>>
        /\ UNCHANGED <<scanVars, matVars>>

\* Passes that keep their handles when they leave the list.
KeptHandles(pl, handles) == handles

\* unregisterPass applied to every pass of the list.
Unregistered(pl, handles) ==
    [p \in PASSES |-> IF p \in Range(passes[pl]) THEN NULL ELSE handles[p]]

RemoveAllPasses(pl) ==
    /\ call' = Call("removeAllPasses", pl, 0, FALSE, FALSE)
    /\ passRenderer' = Unregistered(pl, passRenderer)
    /\ passTimer' = Unregistered(pl, passTimer)
    /\ passes' = [passes EXCEPT ![pl] = <<>>]
    /\ trace' = <<EvUpdate>>
    /\ UNCHANGED <<renderer, resBase, resScale, registered, rendererVars,
                   passBase, enabled, scanVars, matVars>>

\* A renderer setter that does not hand the renderer to the passes.
NotRewired(pl, value) == passRenderer

\* The renderer setter: the passes' renderer handles after the assignment.
Rewired(pl, value) ==
    [p \in PASSES |->
        IF p \in Range(passes[pl]) THEN value ELSE passRenderer[p]]

SetRenderer(pl, value) ==
    /\ call' = Call("renderer", pl, value, FALSE, FALSE)
    /\ renderer' = [renderer EXCEPT ![pl] = value]
    /\ passRenderer' = Rewired(pl, value)
    /\ OnResolutionChange(pl, value, ResSize(pl))
    /\ trace' = IF value # NULL THEN <<EvUpdate>> ELSE <<>>
    /\ UNCHANGED <<passes, resBase, resScale, registered, rRatio,
                   passTimer, enabled, scanVars, matVars>>

\* A loop that renders every pass, enabled or not.
RenderAll(s) == [i \in 1..Len(s) |-> EvRender(s[i])]

\* The loop of render: render() is called on the enabled passes of s, in order.
RECURSIVE RenderEach(_)
RenderEach(s) ==
    IF s = <<>> THEN <<>>
    ELSE (IF enabled[Head(s)] THEN <<EvRender(Head(s))>> ELSE <<>>)
         \o RenderEach(Tail(s))

\* A render without its test of the renderer.
RenderCallsUnguarded(pl) == <<EvTimerUpdate(pl)>> \o RenderEach(passes[pl])

\* render: the calls it makes.
RenderCalls(pl) ==
    IF renderer[pl] = NULL
    THEN <<>>
    ELSE <<EvTimerUpdate(pl)>> \o RenderEach(passes[pl])

Render(pl) ==
    /\ call' = Call("render", pl, 0, FALSE, FALSE)
    /\ trace' = RenderCalls(pl)
    /\ UNCHANGED <<pipeVars, rendererVars, passVars, scanVars, matVars>>

\* A render that goes on with the passes after the one that threw.
RenderedThrough(pl, p) ==
    <<EvTimerUpdate(pl)>>
        \o RenderEach(SubSeq(passes[pl], 1, IndexOf(passes[pl], p) - 1))
        \o <<EvRenderThrows(p)>>
        \o RenderEach(SubSeq(passes[pl], IndexOf(passes[pl], p) + 1,
                             Len(passes[pl])))

\* render, when the render() of pass p throws: the calls it makes.  The
\* loop has no try/catch, so the call of p is the last one.
RenderedUntil(pl, p) ==
    <<EvTimerUpdate(pl)>>
        \o RenderEach(SubSeq(passes[pl], 1, IndexOf(passes[pl], p) - 1))
        \o <<EvRenderThrows(p)>>

\* render, in a frame in which the render() of pass p throws; p is an
\* enabled pass of the list of a pipeline with a renderer.
RenderThrowing(pl, p) ==
    /\ renderer[pl] # NULL
    /\ IndexOf(passes[pl], p) # 0
    /\ enabled[p]
    /\ call' = Call("render", pl, 0, TRUE, FALSE)
    /\ trace' = RenderedUntil(pl, p)
    /\ UNCHANGED <<pipeVars, rendererVars, passVars, scanVars, matVars>>

\* setSize: Resolution.setBaseSize on the pipeline's Resolution; a change of
\* the base size notifies the listener, onResolutionChange.
SetSize(pl, w, h) ==
    /\ call' = Call("setSize", pl, 0, FALSE, resBase[pl] # <<w, h>>)
    /\ resBase' = [resBase EXCEPT ![pl] = <<w, h>>]
    /\ IF resBase[pl] # <<w, h>>
       THEN /\ OnResolutionChange(pl, renderer[pl],
                                  Effective(<<w, h>>, resScale[pl]))
            /\ trace' = ResolutionLog(renderer[pl])
       ELSE /\ UNCHANGED <<rSize, passBase>>
            /\ trace' = <<>>
    /\ UNCHANGED <<renderer, passes, resScale, registered, rRatio,
                   passRenderer, passTimer, enabled, scanVars, matVars>>

\* resolution.scale = s on the pipeline's Resolution; a change of the scale
\* notifies the listener, onResolutionChange.
SetScale(pl, s) ==
    /\ call' = Call("scale", pl, 0, FALSE, resScale[pl] # s)
    /\ resScale' = [resScale EXCEPT ![pl] = s]
    /\ IF resScale[pl] # s
       THEN /\ OnResolutionChange(pl, renderer[pl], Effective(resBase[pl], s))
            /\ trace' = ResolutionLog(renderer[pl])
       ELSE /\ UNCHANGED <<rSize, passBase>>
            /\ trace' = <<>>
    /\ UNCHANGED <<renderer, passes, resBase, registered, rRatio,
                   passRenderer, passTimer, enabled, scanVars, matVars>>

\* Pass.enabled is a public flag of the pass.
SetEnabled(p, b) ==
    /\ call' = Call("enabled", 0, p, FALSE, FALSE)
    /\ enabled' = [enabled EXCEPT ![p] = b]
    /\ trace' = <<>>
    /\ UNCHANGED <<pipeVars, rendererVars, passRenderer, passTimer, passBase,
                   scanVars, matVars>>

\* A dispose that disposes no pass.
DisposeNone(s) == <<>>

\* The loop of dispose: dispose() is called on every pass of s, in order.
DisposeEach(s) == [i \in 1..Len(s) |-> EvPassDispose(s[i])]

\* dispose: the calls it makes, removeAllPasses' included.
DisposeCalls(pl) ==
    <<EvRemovePipeline(pl)>> \o DisposeEach(passes[pl])
        \o <<EvUpdate, EvTimerDispose(pl)>>

Dispose(pl) ==
    /\ call' = Call("dispose", pl, 0, FALSE, FALSE)
    /\ registered' = registered \ {pl}
    /\ passRenderer' = Unregistered(pl, passRenderer)
    /\ passTimer' = Unregistered(pl, passTimer)
    /\ passes' = [passes EXCEPT ![pl] = <<>>]
    /\ trace' = DisposeCalls(pl)
    /\ UNCHANGED <<renderer, resBase, resScale, rendererVars, passBase,
                   enabled, scanVars, matVars>>

\* ------------------------------------------------- scanline effect actions

\* effect.density = value.
SetDensity(value) ==
    /\ call' = Call("density", 0, value, FALSE, FALSE)
    /\ density' = value
    /\ scanCount' = Count(effHeight, value)
    /\ trace' = <<>>
    /\ UNCHANGED <<scrollSpeed, defines, effHeight,
                   pipeVars, rendererVars, passVars, matVars>>

\* effect.scrollSpeed = value.
SetScrollSpeed(value) ==
    /\ call' = Call("scrollSpeed", 0, value, FALSE, "SCROLL" \in defines)
    /\ scrollSpeed' = value
    /\ defines' = ScrollDefines(defines, value)
    /\ trace' = ScrollChanged(defines, value)
    /\ UNCHANGED <<density, scanCount, effHeight,
                   pipeVars, rendererVars, passVars, matVars>>

\* The host changes the effective size of the effect's Resolution to a new
\* height, which invokes the effect's onResolutionChange hook.
ScanResolutionChange(height) ==
    /\ height # effHeight
    /\ call' = Call("onResolutionChange", 0, height, FALSE, FALSE)
    /\ effHeight' = height
    /\ scanCount' = Count(height, density)
    /\ trace' = <<>>
    /\ UNCHANGED <<density, scrollSpeed, defines,
                   pipeVars, rendererVars, passVars, matVars>>

\* effect.setSize(width, height).
ScanSetSize(width, height) ==
    /\ call' = Call("effect.setSize", 0, height, FALSE, FALSE)
    /\ scanCount' = Count(height, density)
    /\ trace' = <<>>
    /\ UNCHANGED <<density, scrollSpeed, defines, effHeight,
                   pipeVars, rendererVars, passVars, matVars>>

\* ------------------------------------------------- effect material actions

\* material.colorSpaceConversion = value.
SetColorSpaceConversion(value) ==
    /\ call' = Call("colorSpaceConversion", 0, value, FALSE,
                    ColorSpaceConversion(materialDefines))
    /\ materialDefines' = ConversionDefines(materialDefines, value)
    /\ trace' = ConversionFlags(materialDefines, value)
    /\ UNCHANGED <<materialUniforms, fragmentShader, vertexShader, effects,
                   pipeVars, rendererVars, passVars, scanVars>>

\* material.setShaderParts(parts).
SetShaderParts(parts) ==
    /\ call' = Call("setShaderParts", 0, parts, FALSE, FALSE)
    /\ fragmentShader' = FragmentSource(fragmentShader, parts)
    /\ vertexShader' = VertexSource(vertexShader, parts)
    /\ trace' = <<EvNeedsUpdate>>
    /\ UNCHANGED <<materialDefines, materialUniforms, effects,
                   pipeVars, rendererVars, passVars, scanVars>>

\* material.setDefines(entries).
SetDefines(entries) ==
    /\ call' = Call("setDefines", 0, entries, FALSE, FALSE)
    /\ materialDefines' = MergedDefines(materialDefines, entries)
    /\ trace' = <<EvNeedsUpdate>>
    /\ UNCHANGED <<materialUniforms, fragmentShader, vertexShader, effects,
                   pipeVars, rendererVars, passVars, scanVars>>

\* material.setUniforms(entries).
SetUniforms(entries) ==
    /\ call' = Call("setUniforms", 0, entries, FALSE,
                    DOMAIN entries \subseteq DOMAIN materialUniforms)
    /\ materialUniforms' = MergedUniforms(materialUniforms, entries)
    /\ trace' = <<>>
    /\ UNCHANGED <<materialDefines, fragmentShader, vertexShader, effects,
                   pipeVars, rendererVars, passVars, scanVars>>

\* --------------------------------------------------- the hosting EffectPass

\* The Effects an EffectPass may host.
EFFECTS == {"scanline", "halftone"}
\* The effect lists: every effect at most once.
EFFECT_LISTS ==
    {<<>>, <<"scanline">>, <<"halftone">>, <<"scanline", "halftone">>,
     <<"halftone", "scanline">>}

\* The macros an Effect declares now: the scanline effect declares SCROLL as
\* "1" while its scroll speed is not 0, the halftone effect declares none.
EffectDefines(e) ==
    IF e = "scanline" THEN [k \in defines |-> "1"] ELSE <<>>

\* The uniforms an Effect declares, each a Uniform object of that effect.
EffectUniforms(e) ==
    IF e = "scanline"
    THEN [n \in {"count", "scrollSpeed"} |-> "scanline"]
    ELSE [n \in {"radius", "rotateR", "rotateG", "rotateB", "scatter", "shape"}
             |-> "halftone"]

\* The macros of the Effects of a list, collected in list order.
RECURSIVE CollectedDefines(_)
CollectedDefines(list) ==
    IF list = <<>>
    THEN <<>>
    ELSE MergedDefines(CollectedDefines(SubSeq(list, 1, Len(list) - 1)),
                       EffectDefines(list[Len(list)]))

\* The uniforms of the Effects of a list, collected in list order.
RECURSIVE CollectedUniforms(_)
CollectedUniforms(list) ==
    IF list = <<>>
    THEN <<>>
    ELSE MergedUniforms(CollectedUniforms(SubSeq(list, 1, Len(list) - 1)),
                        EffectUniforms(list[Len(list)]))

\* The sections of the Effects of a list: the image code of the effects.
CollectedParts(list) ==
    IF list = <<>> THEN <<>> ELSE [k \in {"FRAGMENT_MAIN_IMAGE"} |-> "code"]

\* The rebuild of the EffectPass: the sections, macros and uniforms of the
\* Effects of a list are pushed into the material through setShaderParts,
\* setDefines and setUniforms.
Rebuilt(list) ==
    /\ fragmentShader' = FragmentSource(fragmentShader, CollectedParts(list))
    /\ vertexShader' = VertexSource(vertexShader, CollectedParts(list))
    /\ materialDefines' = MergedDefines(materialDefines, CollectedDefines(list))
    /\ materialUniforms' = MergedUniforms(materialUniforms, CollectedUniforms(list))
    /\ trace' = <<EvNeedsUpdate, EvNeedsUpdate>>

\* The EffectPass rebuilds the material from the Effects it hosts.
Rebuild ==
    /\ call' = Call("rebuild", 0, 0, FALSE, FALSE)
    /\ Rebuilt(effects)
    /\ UNCHANGED <<effects, pipeVars, rendererVars, passVars, scanVars>>

\* The EffectPass gets a new list of Effects (an effect is added, removed
\* or moved) and rebuilds the material from it.
SetEffects(list) ==
    /\ call' = Call("effects", 0, 0, FALSE, FALSE)
    /\ effects' = list
    /\ Rebuilt(list)
    /\ UNCHANGED <<pipeVars, rendererVars, passVars, scanVars>>

\* ------------------------------------------------------- specifications

\* One pipeline, its passes and its frames; the sizes stay what they are.
Next ==
    \/ \E pl \in SOLO, p \in PASSES : AddPass(pl, p)
    \/ \E pl \in SOLO, p \in PASSES : RemovePass(pl, p)
    \/ \E pl \in SOLO : RemoveAllPasses(pl)
    \/ \E pl \in SOLO, value \in RENDERERS \cup {NULL} : SetRenderer(pl, value)
    \/ \E pl \in SOLO : Render(pl)
    \/ \E pl \in SOLO, p \in PASSES : RenderThrowing(pl, p)
    \/ \E p \in PASSES, b \in BOOLEAN : SetEnabled(p, b)
    \/ \E pl \in SOLO : Dispose(pl)

\* One pipeline and a renderer of its size.
InitSolo == Init /\ DefaultOptions /\ SameSize /\ Solo

Spec == InitSolo /\ [][Next]_vars

\* Two pipelines that share passes; the sizes stay what they are.
NextShared ==
    \/ \E pl \in PIPES, p \in FEW : AddPass(pl, p)
    \/ \E pl \in PIPES, p \in FEW : RemovePass(pl, p)
    \/ \E pl \in PIPES : RemoveAllPasses(pl)
    \/ \E pl \in PIPES, value \in RENDERERS \cup {NULL} : SetRenderer(pl, value)
    \/ \E pl \in PIPES : Dispose(pl)

\* Two pipelines and a renderer of their size.
InitShared == Init /\ DefaultOptions /\ SameSize

SpecShared == InitShared /\ [][NextShared]_vars

\* One pipeline and the sizes of its Resolution, its renderer and its passes
\* (a pass that leaves the list keeps the size it had).
NextSize ==
    \/ \E pl \in SOLO, p \in SIZED : AddPass(pl, p)
    \/ \E pl \in SOLO, value \in RENDERERS \cup {NULL} : SetRenderer(pl, value)
    \/ \E pl \in SOLO, w \in SIZES, h \in SIZES : SetSize(pl, w, h)
    \/ \E pl \in SOLO, s \in SCALES : SetScale(pl, s)
    \/ \E pl \in SOLO : Render(pl)

\* One pipeline and a renderer of any size and pixel ratio.
InitSize == Init /\ DefaultOptions /\ Solo

SpecSize == InitSize /\ [][NextSize]_vars

\* One scanline effect and its host.
NextScan ==
    \/ \E value \in DENSITIES : SetDensity(value)
    \/ \E value \in SPEEDS : SetScrollSpeed(value)
    \/ \E height \in SIZES : ScanResolutionChange(height)
    \/ \E width \in SIZES, height \in SIZES : ScanSetSize(width, height)

Detached == \A pl \in PIPES : renderer[pl] = NULL

\* A scanline effect of any options; the pipelines are left alone.
InitScan == Init /\ SameSize /\ Detached

SpecScan == InitScan /\ [][NextScan]_vars

\* One effect material and the calls of its public operations.
NextMat ==
    \/ \E value \in BOOLEAN : SetColorSpaceConversion(value)
    \/ \E parts \in PARTS : SetShaderParts(parts)
    \/ \E entries \in DEFINES : SetDefines(entries)
    \/ \E entries \in UNIFORMS : SetUniforms(entries)

\* A new effect material; the pipelines and the effect are left alone.
InitMat == Init /\ DefaultOptions /\ SameSize /\ Detached

SpecMat == InitMat /\ [][NextMat]_vars

\* One effect material, the EffectPass that owns it, and the Effects.
NextHost ==
    \/ \E value \in SPEEDS : SetScrollSpeed(value)
    \/ \E list \in EFFECT_LISTS : SetEffects(list)
    \/ Rebuild
    \/ \E value \in BOOLEAN : SetColorSpaceConversion(value)

SpecHost == InitMat /\ [][NextHost]_vars

\* ------------------------------------------------------------ properties

\* No element occurs twice in s.
NoDuplicates(s) == \A i, j \in 1..Len(s) : s[i] = s[j] => i = j

\* s with every occurrence of x deleted, the rest in its order.
Without(s, x) == SelectSeq(s, LAMBDA y : y # x)

\* The pass is in some pipeline's list.
Member(p) == \E pl \in PIPES : p \in Range(passes[pl])

\* The names of the calls in the trace.
Released == {trace[i][1] : i \in 1..Len(trace)}

\* C1: every successful addPass appends the pass at the end of the list, a
\* failed addPass leaves the list as it is, every removePass deletes the pass
\* and leaves the other passes in their order, and no pass is ever in a list
\* twice.
C1_AppendOnlyStableRemove ==
    [][\A pl \in PIPES :
          /\ NoDuplicates(passes'[pl])
          /\ (call'.op = "addPass" /\ call'.pl = pl /\ ~call'.threw)
                => passes'[pl] = Append(passes[pl], call'.pass)
          /\ (call'.op = "addPass" /\ call'.pl = pl /\ call'.threw)
                => passes'[pl] = passes[pl]
          /\ (call'.op = "removePass" /\ call'.pl = pl)
                => passes'[pl] = Without(passes[pl], call'.pass)]_vars

\* C1, witness: the pass in the middle of three was removed.
C1_Witness ==
    /\ call.op = "removePass" /\ call.test /\ call.pass = 2
    /\ passes[call.pl] = <<1, 3>>

\* C2: addPass of a pass that is in the list throws, asks nothing of the
\* Buffer Registry, and leaves the list, the pass's handles and the pass's
\* Resolution as they were.
C2_DuplicateAddFails ==
    [][(call'.op = "addPass" /\ call'.pass \in Range(passes[call'.pl]))
          => /\ call'.threw
             /\ trace' = <<>>
             /\ UNCHANGED <<passes, passRenderer, passTimer, passBase>>]_vars

\* C2, witness: an addPass threw for a pass in a list of several passes.
C2_Witness ==
    /\ call.op = "addPass" /\ call.threw
    /\ Len(passes[call.pl]) >= 2
    /\ passRenderer[call.pass] # NULL

\* C3, as claimed: a pass's renderer and timer handles are non-null if and
\* only if the pass is in some pipeline's list.
C3_HandlesIffMember ==
    \A p \in PASSES :
        (passRenderer[p] # NULL /\ passTimer[p] # NULL) <=> Member(p)

\* C3, amended: a pass whose renderer handle or timer handle is non-null is
\* in some pipeline's list.
C3_HandlesOnlyIfMember ==
    \A p \in PASSES :
        (passRenderer[p] # NULL \/ passTimer[p] # NULL) => Member(p)

\* C3, witness: one pass is in a list with both handles set, another was
\* just removed from a list.
C3_Witness ==
    /\ call.op = "removePass" /\ call.test /\ ~Member(call.pass)
    /\ \E p \in PASSES :
          Member(p) /\ passRenderer[p] # NULL /\ passTimer[p] # NULL

\* C4, as claimed: when setSize(W, H) has returned, every pass in the list
\* has the effective size round(W * S) by round(H * S).
C4_PassesHaveResolutionSize ==
    call.op = "setSize" =>
        \A p \in Range(passes[call.pl]) : PassSize(p) = ResSize(call.pl)

\* C4, amended: a setSize(W, H) that changes the base size gives every pass
\* in the list the size floor(round(W * S) * P) by floor(round(H * S) * P)
\* when the pipeline has a renderer, of pixel ratio P, and changes no pass's
\* Resolution when it has none.
C4_ResizeReachesPasses ==
    [][(call'.op = "setSize" /\ resBase'[call'.pl] # resBase[call'.pl])
          => IF renderer[call'.pl] # NULL
             THEN \A p \in Range(passes'[call'.pl]) :
                     Effective(passBase'[p], DefaultScale) =
                        DrawingBufferSize(
                            Effective(resBase'[call'.pl], resScale'[call'.pl]),
                            rRatio[renderer[call'.pl]])
             ELSE passBase' = passBase]_vars

\* C4, witness: a setSize changed the size of two passes under a renderer
\* of pixel ratio 2 and a scale of 0.5.
C4_Witness ==
    /\ call.op = "setSize" /\ call.test
    /\ renderer[call.pl] # NULL /\ rRatio[renderer[call.pl]] = 2
    /\ resScale[call.pl] = 1
    /\ Len(passes[call.pl]) = 2
    /\ \A p \in Range(passes[call.pl]) : PassSize(p) # ResSize(call.pl)

\* C5: render on a pipeline with a renderer, in a frame in which no pass
\* throws, updates the timer first and then renders the enabled passes, each
\* once, in the order of the list, and no other pass.
C5_RenderEnabledInOrder ==
    (call.op = "render" /\ ~call.threw /\ renderer[call.pl] # NULL) =>
        LET on == SelectSeq(passes[call.pl], LAMBDA p : enabled[p])
        IN  trace = <<EvTimerUpdate(call.pl)>>
                        \o [i \in 1..Len(on) |-> EvRender(on[i])]

\* C5, witness: a frame rendered two passes and left a disabled one out.
C5_Witness ==
    /\ call.op = "render" /\ ~call.threw /\ renderer[call.pl] # NULL
    /\ Len(trace) = 3
    /\ \E p \in Range(passes[call.pl]) : ~enabled[p]

\* C6: render on a pipeline without a renderer does not throw, calls neither
\* the timer nor a pass, and changes nothing.
C6_RenderDetachedNoop ==
    [][(call'.op = "render" /\ renderer[call'.pl] = NULL)
          => /\ ~call'.threw
             /\ trace' = <<>>
             /\ UNCHANGED <<pipeVars, rendererVars, passVars>>]_vars

\* C6, witness: a frame on a pipeline without a renderer that holds an
\* enabled pass.
C6_Witness ==
    /\ call.op = "render" /\ renderer[call.pl] = NULL
    /\ \E p \in Range(passes[call.pl]) : enabled[p]

\* C7: removePass of a pass that is not in the list does not throw, asks
\* nothing of the Buffer Registry, and leaves every list and the pass's
\* handles as they were.
C7_RemoveAbsentNoop ==
    [][(call'.op = "removePass" /\ call'.pass \notin Range(passes[call'.pl]))
          => /\ ~call'.threw
             /\ trace' = <<>>
             /\ UNCHANGED <<passes, passRenderer, passTimer>>]_vars

\* C7, witness: a pass was removed from a pipeline it is not in, while it is
\* in the other pipeline with its handles set.
C7_Witness ==
    /\ call.op = "removePass" /\ ~call.test
    /\ \E pl \in PIPES \ {call.pl} : call.pass \in Range(passes[pl])
    /\ passRenderer[call.pass] # NULL /\ passTimer[call.pass] # NULL

\* C8: a dispose that follows a dispose of the same pipeline does not throw,
\* leaves the state as the first left it, and releases nothing again: it
\* disposes no pass and no timer and does not unregister the pipeline.
C8_DisposeTwice ==
    [][(call.op = "dispose" /\ call'.op = "dispose" /\ call'.pl = call.pl)
          => /\ ~call'.threw
             /\ UNCHANGED <<pipeVars, rendererVars, passVars>>
             /\ Released' \cap {"pass.dispose", "timer.dispose",
                                "ioManager.removePipeline"} = {}]_vars

\* C9: SCROLL is declared exactly when scrollSpeed is nonzero, and an
\* assignment of scrollSpeed marks the effect dirty once when it adds or
\* removes SCROLL and not at all when it does neither.
C9_ScrollMacro ==
    /\ ("SCROLL" \in defines) <=> (scrollSpeed # 0)
    /\ call.op = "scrollSpeed" =>
          trace = IF call.test # ("SCROLL" \in defines)
                  THEN <<EvSetChanged>>
                  ELSE <<>>

\* C9, witness: a nonzero scrollSpeed was assigned while SCROLL was declared.
C9_Witness ==
    /\ call.op = "scrollSpeed" /\ call.test
    /\ scrollSpeed # 0 /\ trace = <<>>

\* C10: the count uniform is round(H * D), for the height H of the effect's
\* Resolution and its density D.
C10_CountIsHeightTimesDensity ==
    scanCount = Round(effHeight * density, DensityDen)

\* C11: assigning colorSpaceConversion its current value changes nothing of
\* the material and flags no recompilation; assigning a different value adds
\* or removes the macro COLOR_SPACE_CONVERSION, leaves the other macros
\* alone and flags recompilation exactly once; after any assignment the
\* getter returns the assigned value.
C11_ConversionSetter ==
    [][call'.op = "colorSpaceConversion"
          => /\ ColorSpaceConversion(materialDefines') = call'.pass
             /\ \A k \in MACROS \ {"COLOR_SPACE_CONVERSION"} :
                   /\ k \in DOMAIN materialDefines' <=> k \in DOMAIN materialDefines
                   /\ k \in DOMAIN materialDefines
                         => materialDefines'[k] = materialDefines[k]
             /\ IF ColorSpaceConversion(materialDefines) = call'.pass
                THEN UNCHANGED matVars /\ trace' = <<>>
                ELSE trace' = <<EvNeedsUpdate>>]_vars

\* The macro has just been switched on, beside another macro.
C11_Witness ==
    /\ call.op = "colorSpaceConversion"
    /\ call.pass = TRUE
    /\ call.test = FALSE
    /\ trace = <<EvNeedsUpdate>>
    /\ DOMAIN materialDefines = MACROS

\* C12: setUniforms flags recompilation when, and only when, its mapping
\* holds a uniform name the material did not declare before the call.
C12_FlagsIffNewName ==
    [][call'.op = "setUniforms"
          => ((trace' = <<EvNeedsUpdate>>)
                 <=> ~(DOMAIN call'.pass \subseteq DOMAIN materialUniforms))]_vars

\* C13: a setDefines call leaves every key of its mapping with the value the
\* mapping gives it (the last writer wins), leaves every other key as it
\* was, declared or not, and flags recompilation.
C13_LastWriterWins ==
    [][call'.op = "setDefines"
          => /\ \A k \in DOMAIN call'.pass :
                   /\ k \in DOMAIN materialDefines'
                   /\ materialDefines'[k] = call'.pass[k]
             /\ \A k \in MACROS \ DOMAIN call'.pass :
                   /\ k \in DOMAIN materialDefines' <=> k \in DOMAIN materialDefines
                   /\ k \in DOMAIN materialDefines
                         => materialDefines'[k] = materialDefines[k]
             /\ trace' = <<EvNeedsUpdate>>]_vars

\* A call that gave SCROLL alone a value, on a material that keeps the value
\* an earlier call gave COLOR_SPACE_CONVERSION.
C13_Witness ==
    /\ call.op = "setDefines"
    /\ DOMAIN call.pass = {"SCROLL"}
    /\ call.pass["SCROLL"] = "2"
    /\ DOMAIN materialDefines = MACROS
    /\ materialDefines["SCROLL"] = "2"
    /\ materialDefines["COLOR_SPACE_CONVERSION"] = "2"
    /\ trace = <<EvNeedsUpdate>>

\* C14: merging is deterministic and repeatable.  A call of setShaderParts,
\* setDefines or setUniforms that repeats the call before it leaves the
\* material as that call left it; setShaderParts yields the shader sources
\* it yields on a new material, whatever calls came before; and applying
\* setDefines or setUniforms once more to the maps it left yields those maps.
C14_Repeatable ==
    [][/\ (call'.op \in {"setShaderParts", "setDefines", "setUniforms"}
             /\ call'.repeat)
          => UNCHANGED matVars
       /\ call'.op = "setShaderParts"
          => /\ fragmentShader' = FragmentSource(DefaultSource, call'.pass)
             /\ vertexShader' = VertexSource(DefaultSource, call'.pass)
       /\ call'.op = "setDefines"
          => MergedDefines(materialDefines', call'.pass) = materialDefines'
       /\ call'.op = "setUniforms"
          => MergedUniforms(materialUniforms', call'.pass) = materialUniforms'
      ]_vars

\* setShaderParts has been called twice in a row with a mapping that gives
\* the image section its code, on a material that has macros and a uniform
\* from earlier calls.
C14_Witness ==
    /\ call.op = "setShaderParts"
    /\ call.repeat
    /\ DOMAIN call.pass = {"FRAGMENT_MAIN_IMAGE"}
    /\ fragmentShader =
          <<"frag{", "main{", "code", "}}">>
    /\ vertexShader = <<"vert{", "main{", "}}">>
    /\ "SCROLL" \in DOMAIN materialDefines
    /\ "count" \in DOMAIN materialUniforms

\* The macros that some Effect of the EffectPass declares now.
Declared == UNION {DOMAIN EffectDefines(effects[i]) : i \in 1..Len(effects)}

\* C15: after a rebuild of the merged material, every macro of the material
\* other than its own COLOR_SPACE_CONVERSION is declared by an Effect the
\* EffectPass hosts now.
C15_NoStaleMacro ==
    call.op \in {"rebuild", "effects"}
       => DOMAIN materialDefines \ {"COLOR_SPACE_CONVERSION"} \subseteq Declared

\* C16: a setSize on a pipeline without a renderer does not throw and
\* changes no pass's Resolution; the assignment of a non-null renderer gives
\* every pass of the list that renderer as its handle and, as its base size,
\* the device-scaled effective size of the pipeline's Resolution as the last
\* setSize left it.
C16_ResizeDetachedThenAttach ==
    [][/\ (call'.op = "setSize" /\ renderer[call'.pl] = NULL)
          => /\ ~call'.threw
             /\ passBase' = passBase
             /\ renderer'[call'.pl] = NULL
       /\ (call'.op = "renderer" /\ call'.pass # NULL)
          => /\ ~call'.threw
             /\ renderer'[call'.pl] = call'.pass
             /\ \A p \in Range(passes'[call'.pl]) :
                   /\ passRenderer'[p] = call'.pass
                   /\ passBase'[p] =
                         DrawingBufferSize(
                             Effective(resBase[call'.pl], resScale[call'.pl]),
                             rRatio[call'.pass])
      ]_vars

\* A renderer of pixel ratio 2 has just been attached to a pipeline whose
\* size was set after its construction (the pass that was never added still
\* has the size of the construction): the pass of the list has the renderer
\* and the device-scaled size.
C16_Witness ==
    /\ call.op = "renderer" /\ call.pass # NULL
    /\ rRatio[call.pass] = 2
    /\ passes[call.pl] = <<2>>
    /\ passBase[1] = <<1, 1>>
    /\ resBase[call.pl] = <<2, 1>>
    /\ passRenderer[2] = call.pass
    /\ passBase[2] = <<4, 2>>

\* C17: when the render() of a pass throws during render, the render call
\* throws, the throwing call is the last call of the frame (no later pass is
\* rendered), the calls before it are the timer update and the enabled
\* passes before the throwing pass in list order, and the pass lists, the
\* handles and the sizes are unchanged; the next render call in which no
\* pass throws renders every enabled pass in list order from the first.
C17_ThrowAbortsFrame ==
    [][/\ (call'.op = "render"
             /\ \E i \in 1..Len(trace') : trace'[i][1] = "pass.render throws")
          => /\ call'.threw
             /\ UNCHANGED <<pipeVars, rendererVars, passVars>>
             /\ trace'[Len(trace')][1] = "pass.render throws"
             /\ LET thrower == trace'[Len(trace')][2]
                    before == SelectSeq(
                                 SubSeq(passes[call'.pl], 1,
                                        IndexOf(passes[call'.pl], thrower) - 1),
                                 LAMBDA q : enabled[q])
                IN  /\ IndexOf(passes[call'.pl], thrower) # 0
                    /\ SubSeq(trace', 1, Len(trace') - 1) =
                          <<EvTimerUpdate(call'.pl)>>
                              \o [i \in 1..Len(before) |-> EvRender(before[i])]
       /\ (call.op = "render" /\ call.threw
             /\ call'.op = "render" /\ ~call'.threw)
          => LET on == SelectSeq(passes'[call'.pl], LAMBDA q : enabled'[q])
             IN  /\ passes' = passes
                 /\ trace' = <<EvTimerUpdate(call'.pl)>>
                                \o [i \in 1..Len(on) |-> EvRender(on[i])]
      ]_vars

\* The second of three enabled passes threw: the first was rendered, the
\* third was not.
C17_Witness ==
    /\ call.op = "render" /\ call.threw
    /\ passes[call.pl] = <<3, 1, 2>>
    /\ \A p \in PASSES : enabled[p]
    /\ trace = <<EvTimerUpdate(call.pl), EvRender(3), EvRenderThrows(1)>>

\* C18: while a pipeline has a renderer, and so whenever a render call on it
\* reaches its passes, all passes of its list have the same base size, the
\* drawing buffer size of the renderer.
C18_PassesAgreeOnSize ==
    \A pl \in PIPES :
        renderer[pl] # NULL
           => \A p \in Range(passes[pl]) :
                 passBase[p] = DrawingBufferSize(rSize[renderer[pl]],
                                                 rRatio[renderer[pl]])

\* A frame on a pipeline of size 1 by 2 with a renderer of pixel ratio 2
\* rendered two passes, both of the device-scaled size 2 by 4.
C18_Witness ==
    /\ call.op = "render" /\ renderer[call.pl] # NULL
    /\ rRatio[renderer[call.pl]] = 2
    /\ Len(passes[call.pl]) = 2
    /\ Len(trace) = 3
    /\ resBase[call.pl] = <<1, 2>>
    /\ resScale[call.pl] = DefaultScale
    /\ \A p \in Range(passes[call.pl]) : passBase[p] = <<2, 4>>

\* The number of times the event e occurs in the sequence s.
Occurrences(s, e) == Cardinality({i \in 1..Len(s) : s[i] = e})

\* C19: dispose empties the pass list, calls dispose() exactly once on every
\* pass that was in the list and on no other pass, leaves those passes with
\* null renderer and timer handles, removes the pipeline from the Buffer
\* Registry and disposes the Timer; removeAllPasses empties the list and
\* nulls the handles of its passes in the same way and disposes no pass.
C19_DisposeReleasesAll ==
    [][/\ call'.op = "dispose"
          => /\ passes'[call'.pl] = <<>>
             /\ \A p \in PASSES :
                   Occurrences(trace', EvPassDispose(p)) =
                      IF p \in Range(passes[call'.pl]) THEN 1 ELSE 0
             /\ \A p \in Range(passes[call'.pl]) :
                   passRenderer'[p] = NULL /\ passTimer'[p] = NULL
             /\ call'.pl \notin registered'
             /\ Occurrences(trace', EvRemovePipeline(call'.pl)) = 1
             /\ Occurrences(trace', EvTimerDispose(call'.pl)) = 1
       /\ call'.op = "removeAllPasses"
          => /\ passes'[call'.pl] = <<>>
             /\ \A p \in Range(passes[call'.pl]) :
                   passRenderer'[p] = NULL /\ passTimer'[p] = NULL
             /\ \A p \in PASSES : Occurrences(trace', EvPassDispose(p)) = 0
             /\ registered' = registered
             /\ Occurrences(trace', EvTimerDispose(call'.pl)) = 0
      ]_vars

\* A pipeline of three passes has just been disposed.
C19_Witness ==
    /\ call.op = "dispose" /\ ~call.repeat
    /\ trace = <<EvRemovePipeline(call.pl), EvPassDispose(2), EvPassDispose(3),
                 EvPassDispose(1), EvUpdate, EvTimerDispose(call.pl)>>
    /\ passes[call.pl] = <<>>
    /\ call.pl \notin registered
    /\ \A p \in PASSES : passRenderer[p] = NULL /\ passTimer[p] = NULL

\* C20: with a single pipeline, every pass of the list has the pipeline's
\* renderer (null when the pipeline has none) as its renderer handle and the
\* pipeline's timer as its timer handle, and every pass outside the list,
\* removed or never added, has both handles null.
C20_HandlesFollowPipeline ==
    \A pl \in SOLO, p \in PASSES :
        IF p \in Range(passes[pl])
        THEN passRenderer[p] = renderer[pl] /\ passTimer[p] = pl
        ELSE passRenderer[p] = NULL /\ passTimer[p] = NULL

\* A pass has just been removed from a pipeline with a renderer that still
\* holds two passes.
C20_Witness ==
    /\ call.op = "removePass" /\ call.test
    /\ renderer[call.pl] # NULL
    /\ Len(passes[call.pl]) = 2
    /\ passRenderer[call.pass] = NULL /\ passTimer[call.pass] = NULL
    /\ \A p \in Range(passes[call.pl]) :
          passRenderer[p] = renderer[call.pl] /\ passTimer[p] = call.pl

====
